---- MODULE Spec2Model ----
(***************************************************************************)
(* Model of src/win.py: load_config() reads app_settings.json, falls back  *)
(* to a literal default (and writes default_config_fallback.json) when the *)
(* file is missing; main() reports the configuration or exits with 1.      *)
(***************************************************************************)
EXTENDS Integers, Sequences, FiniteSets, TLC

(***************************************************************************)
(* Bounds                                                                  *)
(***************************************************************************)
\* longest exhaustively generated token sequence in the primary file
MaxLen == 3

(***************************************************************************)
(* Python values.  Every value is a record of the same shape:              *)
(*   kind  : "str" | "num" | "bool" | "none" | "dict" | "list" | "unset"   *)
(*   atom  : the scalar as Python's str() shows it                         *)
(*   items : for a dict the (key, val) pairs in insertion order; for a     *)
(*           list the elements (key = "")                                  *)
(***************************************************************************)
PyStr(s) == [kind |-> "str", atom |-> s, items |-> <<>>]

PyNum(n) == [kind |-> "num", atom |-> n, items |-> <<>>]

PyBool(b) == [kind |-> "bool", atom |-> IF b THEN "True" ELSE "False", items |-> <<>>]

PyNone == [kind |-> "none", atom |-> "None", items |-> <<>>]

PyDict(pairs) == [kind |-> "dict", atom |-> "", items |-> pairs]

PyList(elems) == [kind |-> "list", atom |-> "", items |-> elems]

\* a local that has not been assigned yet
Unset == [kind |-> "unset", atom |-> "", items |-> <<>>]

Pair(k, v) == [key |-> k, val |-> v]

\* dict.__setitem__ as the JSON decoder uses it: a repeated key keeps its
\* first position and takes the last value
RECURSIVE DictSet(_, _, _)
DictSet(pairs, k, v) ==
    IF pairs = <<>> THEN <<Pair(k, v)>>
    ELSE IF Head(pairs).key = k THEN <<Pair(k, v)>> \o Tail(pairs)
    ELSE <<Head(pairs)>> \o DictSet(Tail(pairs), k, v)

\* dict.get(key): the value, or None when the key is absent
RECURSIVE DictGet(_, _)
DictGet(pairs, k) ==
    IF pairs = <<>> THEN PyNone
    ELSE IF Head(pairs).key = k THEN Head(pairs).val
    ELSE DictGet(Tail(pairs), k)

\* the literal default configuration of the missing-file branch
DefaultConfig ==
    PyDict(<< Pair("api_endpoint", PyStr("https://api.example.com/v1")),
              Pair("api_key", PyStr("YOUR_DEFAULT_API_KEY")),
              Pair("logging_level", PyStr("INFO")),
              Pair("feature_flags",
                   PyDict(<< Pair("enable_new_ui", PyBool(FALSE)) >>)) >>)

(***************************************************************************)
(* JSON text: a sequence of tokens [t, v].                                 *)
(***************************************************************************)
P(c) == [t |-> "punct", v |-> c]

S(s) == [t |-> "str", v |-> s]

N(n) == [t |-> "num", v |-> n]

L(w) == [t |-> "lit", v |-> w]

W(s) == [t |-> "ws", v |-> s]

\* a bare word that is no JSON token, as in the file "not json"
B(w) == [t |-> "bad", v |-> w]

\* newline followed by 4 spaces per nesting level (indent=4)
Indent(d) ==
    CASE d = 0 -> "\n"
      [] d = 1 -> "\n    "
      [] d = 2 -> "\n        "
      [] OTHER -> "\n            "

\* json.dumps(obj, indent=4)
RECURSIVE Dumps(_, _)
RECURSIVE DumpsItems(_, _, _)
DumpsItems(pairs, d, isDict) ==
    IF pairs = <<>> THEN <<>>
    ELSE LET h == Head(pairs)
             one == <<W(Indent(d))>>
                    \o (IF isDict THEN <<S(h.key), P(":"), W(" ")>> ELSE <<>>)
                    \o Dumps(h.val, d)
         IN  IF Tail(pairs) = <<>> THEN one
             ELSE one \o <<P(",")>> \o DumpsItems(Tail(pairs), d, isDict)

Dumps(val, d) ==
    CASE val.kind = "str" -> <<S(val.atom)>>
      [] val.kind = "num" -> <<N(val.atom)>>
      [] val.kind = "bool" -> <<L(IF val.atom = "True" THEN "true" ELSE "false")>>
      [] val.kind = "none" -> <<L("null")>>
      [] val.kind = "dict" ->
            IF val.items = <<>> THEN <<P("{"), P("}")>>
            ELSE <<P("{")>> \o DumpsItems(val.items, d + 1, TRUE)
                 \o <<W(Indent(d)), P("}")>>
      [] OTHER ->
            IF val.items = <<>> THEN <<P("["), P("]")>>
            ELSE <<P("[")>> \o DumpsItems(val.items, d + 1, FALSE)
                 \o <<W(Indent(d)), P("]")>>

json_dumps(val) == Dumps(val, 0)

\* the decoder skips whitespace between tokens
RECURSIVE SkipWs(_)
SkipWs(toks) ==
    IF toks # <<>> /\ Head(toks).t = "ws" THEN SkipWs(Tail(toks)) ELSE toks

ParseFail == [ok |-> FALSE, val |-> PyNone, rest |-> <<>>]

ParseOk(v, r) == [ok |-> TRUE, val |-> v, rest |-> r]

IsP(toks, c) == toks # <<>> /\ Head(toks).t = "punct" /\ Head(toks).v = c

\* json decoder: one value, then the members of an object or the elements
\* of an array up to the closing bracket
RECURSIVE ParseValue(_)
RECURSIVE ParseMembers(_, _)
RECURSIVE ParseElements(_, _)
ParseMembers(toks, acc) ==
    LET s == SkipWs(toks) IN
    IF s = <<>> \/ Head(s).t # "str" THEN ParseFail
    ELSE LET k == Head(s).v
             c == SkipWs(Tail(s))
         IN  IF ~IsP(c, ":") THEN ParseFail
             ELSE LET r == ParseValue(Tail(c)) IN
                  IF ~r.ok THEN ParseFail
                  ELSE LET acc2 == DictSet(acc, k, r.val)
                           e == SkipWs(r.rest)
                       IN  IF IsP(e, ",") THEN ParseMembers(Tail(e), acc2)
                           ELSE IF IsP(e, "}") THEN ParseOk(PyDict(acc2), Tail(e))
                           ELSE ParseFail

ParseElements(toks, acc) ==
    LET r == ParseValue(toks) IN
    IF ~r.ok THEN ParseFail
    ELSE LET acc2 == Append(acc, Pair("", r.val))
             e == SkipWs(r.rest)
         IN  IF IsP(e, ",") THEN ParseElements(Tail(e), acc2)
             ELSE IF IsP(e, "]") THEN ParseOk(PyList(acc2), Tail(e))
             ELSE ParseFail

ParseValue(toks) ==
    LET s == SkipWs(toks) IN
    IF s = <<>> THEN ParseFail
    ELSE LET h == Head(s) IN
         CASE h.t = "str" -> ParseOk(PyStr(h.v), Tail(s))
           [] h.t = "num" -> ParseOk(PyNum(h.v), Tail(s))
           [] h.t = "lit" /\ h.v = "true" -> ParseOk(PyBool(TRUE), Tail(s))
           [] h.t = "lit" /\ h.v = "false" -> ParseOk(PyBool(FALSE), Tail(s))
           [] h.t = "lit" /\ h.v = "null" -> ParseOk(PyNone, Tail(s))
           [] IsP(s, "{") ->
                 IF IsP(SkipWs(Tail(s)), "}")
                 THEN ParseOk(PyDict(<<>>), Tail(SkipWs(Tail(s))))
                 ELSE ParseMembers(Tail(s), <<>>)
           [] IsP(s, "[") ->
                 IF IsP(SkipWs(Tail(s)), "]")
                 THEN ParseOk(PyList(<<>>), Tail(SkipWs(Tail(s))))
                 ELSE ParseElements(Tail(s), <<>>)
           [] OTHER -> ParseFail

\* json.load(f): the whole text must be exactly one value
json_load(toks) ==
    LET r == ParseValue(toks) IN
    IF r.ok /\ SkipWs(r.rest) = <<>>
    THEN [ok |-> TRUE, val |-> r.val]
    ELSE [ok |-> FALSE, val |-> PyNone]

(***************************************************************************)
(* Text that print() shows: str(v) of a value, as chunks.                  *)
(***************************************************************************)
RECURSIVE PyRepr(_)
RECURSIVE PyReprItems(_, _)
PyReprItems(pairs, isDict) ==
    IF pairs = <<>> THEN <<>>
    ELSE LET h == Head(pairs)
             one == (IF isDict THEN <<"'", h.key, "'", ": ">> ELSE <<>>)
                    \o PyRepr(h.val)
         IN  IF Tail(pairs) = <<>> THEN one
             ELSE one \o <<", ">> \o PyReprItems(Tail(pairs), isDict)

PyRepr(val) ==
    CASE val.kind = "str" -> <<"'", val.atom, "'">>
      [] val.kind = "dict" -> <<"{">> \o PyReprItems(val.items, TRUE) \o <<"}">>
      [] val.kind = "list" -> <<"[">> \o PyReprItems(val.items, FALSE) \o <<"]">>
      [] OTHER -> <<val.atom>>

\* str(v): a string shows without quotes, everything else as its repr
PyFormat(val) == IF val.kind = "str" THEN <<val.atom>> ELSE PyRepr(val)

\* one printed line
Line(tag, a, b) == [tag |-> tag, a |-> a, b |-> b]

\* str(err) of the exception main reports
Describe(e) ==
    CASE e = "JSONDecodeError" -> <<"Expecting value">>
      [] e = "PermissionError" -> <<"[Errno 13] Permission denied">>
      [] e = "OSError" -> <<"[Errno 28] No space left on device">>
      [] OTHER -> <<e>>

(***************************************************************************)
(* Files                                                                   *)
(***************************************************************************)
config_path == "app_settings.json"

fallback_path == "default_config_fallback.json"

Paths == {config_path, fallback_path}

NoFile == [exists |-> FALSE, readable |-> FALSE, text |-> <<>>]

File(txt, rd) == [exists |-> TRUE, readable |-> rd, text |-> txt]

\* tokens the generated primary files are made of
Alphabet ==
    { P("{"), P("}"), P("["), P("]"), P(":"), P(","),
      S("api_key"), S("x"), N("1"), L("null") }

TokSeqs(n) == UNION { [1..k -> Alphabet] : k \in 0..n }

\* primary files of interest that are longer than the generated ones
SampleTexts ==
    { <<P("{"), S("x"), P(":"), N("1"), P("}")>>,
      <<P("{"), S("api_key"), P(":"), S("K"), P(","),
        S("api_endpoint"), P(":"), S("E"), P("}")>>,
      <<P("{"), S("api_endpoint"), P(":"), S("E"), P(","),
        S("api_key"), P(":"), S("K"), P("}")>>,
      <<P("{"), S("api_endpoint"), P(":"), S("E"), P("}")>>,
      <<P("{"), S("a"), P(":"), N("1"), P(","), S("b"), P(":"), N("2"), P(","),
        S("a"), P(":"), N("3"), P("}")>>,
      <<P("{"), S("feature_flags"), P(":"), P("{"), S("enable_new_ui"), P(":"),
        L("true"), P("}"), P(","), S("api_key"), P(":"), L("null"), P("}")>>,
      <<W("\n"), P("{"), W(" "), S("x"), W(" "), P(":"), P("["), N("1"), P(","),
        L("false"), P("]"), P("}"), W("\n")>>,
      <<P("{"), S("x"), P(":"), N("1"), P(","), P("}")>>,
      <<P("{"), S("x"), P(":"), N("1"), P("}"), P("}")>>,
      <<B("not"), W(" "), B("json")>>,
      json_dumps(DefaultConfig) }

PrimaryTexts == TokSeqs(MaxLen) \cup SampleTexts

\* what may lie at the fallback path before the run
StaleTexts == { <<P("{"), S("old"), P(":"), N("0"), P("}")>> }

(***************************************************************************)
(* State                                                                   *)
(***************************************************************************)
VARIABLES
    fs,            \* path -> file
    fs0,           \* the files as they were when the run started
    handles,       \* paths with an open file handle
    fb_opens,      \* times the fallback path was opened for writing
    pc,            \* position in the script
    caller,        \* who called load_config: "main" or "twice"
    calls,         \* number of calls of load_config
    exc,           \* exception in flight ("" when none)
    config_data,   \* load_config's local
    config,        \* main's local
    api_endpoint,  \* main's local
    api_key,       \* main's local
    idx,           \* position of main's loop in config.items()
    results,       \* values load_config returned to the twice caller
    stdout,        \* lines printed so far
    exit_status    \* process exit status, Running while it runs

vars == << fs, fs0, handles, fb_opens, pc, caller, calls, exc, config_data,
           config, api_endpoint, api_key, idx, results, stdout, exit_status >>

Running == -1

NoExc == ""

\* the primary file is missing, unreadable, or holds one of the texts; the
\* fallback path is free or holds a stale file
PrimaryFiles ==
    {NoFile} \cup {File(<<>>, FALSE)} \cup { File(t, TRUE) : t \in PrimaryTexts }

FallbackFiles == {NoFile} \cup { File(t, TRUE) : t \in StaleTexts }

InitFiles ==
    /\ \E p \in PrimaryFiles, f \in FallbackFiles :
          fs = [x \in Paths |-> IF x = config_path THEN p ELSE f]
    /\ fs0 = fs

InitLocals ==
    /\ handles = {}
    /\ fb_opens = 0
    /\ calls = 0
    /\ exc = NoExc
    /\ config_data = Unset
    /\ config = Unset
    /\ api_endpoint = Unset
    /\ api_key = Unset
    /\ idx = 0
    /\ results = <<>>
    /\ stdout = <<>>
    /\ exit_status = Running

\* python win.py
Init ==
    /\ InitFiles
    /\ InitLocals
    /\ caller = "main"
    /\ pc = "main_87"

\* where an exception that leaves load_config lands
RaiseTarget == IF caller = "main" THEN "main_88" ELSE "twice_raised"

(***************************************************************************)
(* load_config                                                             *)
(***************************************************************************)
\* line 29: print the expected location
Lc_PrintPath ==
    /\ pc = "lc_29"
    /\ stdout' = Append(stdout, Line("looking", <<config_path>>, <<>>))
    /\ pc' = "lc_33"
    /\ UNCHANGED << fs, fs0, handles, fb_opens, caller, calls, exc, config_data,
                    config, api_endpoint, api_key, idx, results, exit_status >>

\* line 33: open(config_path, "r")
Lc_OpenRead ==
    /\ pc = "lc_33"
    /\ IF ~fs[config_path].exists
       THEN /\ exc' = "FileNotFoundError"
            /\ pc' = "lc_37"
            /\ UNCHANGED handles
       ELSE IF ~fs[config_path].readable
       THEN /\ exc' = "PermissionError"
            /\ pc' = RaiseTarget
            /\ UNCHANGED handles
       ELSE /\ handles' = handles \cup {config_path}
            /\ pc' = "lc_34"
            /\ UNCHANGED exc
    /\ UNCHANGED << fs, fs0, fb_opens, caller, calls, config_data, config,
                    api_endpoint, api_key, idx, results, stdout, exit_status >>

\* line 34: config_data = json.load(f)
Lc_JsonLoad ==
    /\ pc = "lc_34"
    /\ LET r == json_load(fs[config_path].text) IN
       IF r.ok
       THEN /\ config_data' = r.val
            /\ UNCHANGED exc
       ELSE /\ exc' = "JSONDecodeError"
            /\ UNCHANGED config_data
    /\ pc' = "lc_33_exit"
    /\ UNCHANGED << fs, fs0, handles, fb_opens, caller, calls, config,
                    api_endpoint, api_key, idx, results, stdout, exit_status >>

\* variant: a decode error is handled like a missing file
Lc_CloseRead_CatchAll ==
    /\ pc = "lc_33_exit"
    /\ handles' = handles \ {config_path}
    /\ pc' = IF exc # NoExc THEN "lc_37" ELSE "lc_80"
    /\ exc' = IF exc # NoExc THEN "FileNotFoundError" ELSE exc
    /\ UNCHANGED << fs, fs0, fb_opens, caller, calls, config_data, config,
                    api_endpoint, api_key, idx, results, stdout, exit_status >>

\* variant: the read handle stays open when json.load raises
Lc_CloseRead_Leak ==
    /\ pc = "lc_33_exit"
    /\ handles' = IF exc # NoExc THEN handles ELSE handles \ {config_path}
    /\ pc' = IF exc # NoExc THEN RaiseTarget ELSE "lc_80"
    /\ UNCHANGED << fs, fs0, fb_opens, caller, calls, exc, config_data, config,
                    api_endpoint, api_key, idx, results, stdout, exit_status >>

\* leaving the with block of line 33 closes the read handle; an exception
\* other than FileNotFoundError leaves load_config
Lc_CloseRead ==
    /\ pc = "lc_33_exit"
    /\ handles' = handles \ {config_path}
    /\ pc' = IF exc # NoExc THEN RaiseTarget ELSE "lc_80"
    /\ UNCHANGED << fs, fs0, fb_opens, caller, calls, exc, config_data, config,
                    api_endpoint, api_key, idx, results, stdout, exit_status >>

\* lines 37-55: except FileNotFoundError: warn, build the default
Lc_ExceptMissing ==
    /\ pc = "lc_37"
    /\ exc = "FileNotFoundError"
    /\ stdout' = stdout \o << Line("missing", <<"MISSING">>, <<>>),
                              Line("full_path", <<config_path>>, <<>>),
                              Line("use_default", <<>>, <<>>) >>
    /\ config_data' = DefaultConfig
    /\ exc' = NoExc
    /\ pc' = "lc_70"
    /\ UNCHANGED << fs, fs0, handles, fb_opens, caller, calls, config,
                    api_endpoint, api_key, idx, results, exit_status >>

\* line 70: open(fallback_path, "w") creates or truncates the file, or fails
Lc_OpenWrite ==
    /\ pc = "lc_70"
    /\ \E ok \in BOOLEAN :
         IF ok
         THEN /\ handles' = handles \cup {fallback_path}
              /\ fs' = [fs EXCEPT ![fallback_path] = File(<<>>, TRUE)]
              /\ fb_opens' = fb_opens + 1
              /\ pc' = "lc_71"
              /\ UNCHANGED exc
         ELSE /\ exc' = "PermissionError"
              /\ pc' = RaiseTarget
              /\ UNCHANGED << handles, fs, fb_opens >>
    /\ UNCHANGED << fs0, caller, calls, config_data, config, api_endpoint,
                    api_key, idx, results, stdout, exit_status >>

\* variant: the fallback file is opened but the default is not written
Lc_Write_Nothing ==
    /\ pc = "lc_71"
    /\ \E ok \in BOOLEAN :
         IF ok
         THEN UNCHANGED << fs, exc >>
         ELSE /\ exc' = "OSError"
              /\ UNCHANGED fs
    /\ pc' = "lc_70_exit"
    /\ UNCHANGED << fs0, handles, fb_opens, caller, calls, config_data, config,
                    api_endpoint, api_key, idx, results, stdout, exit_status >>

\* line 71: f.write(json.dumps(config_data, indent=4)), or the write fails
Lc_Write ==
    /\ pc = "lc_71"
    /\ \E ok \in BOOLEAN :
         IF ok
         THEN /\ fs' = [fs EXCEPT ![fallback_path].text = json_dumps(config_data)]
              /\ UNCHANGED exc
         ELSE /\ exc' = "OSError"
              /\ UNCHANGED fs
    /\ pc' = "lc_70_exit"
    /\ UNCHANGED << fs0, handles, fb_opens, caller, calls, config_data, config,
                    api_endpoint, api_key, idx, results, stdout, exit_status >>

\* variant: a failed write is ignored and the default is returned
Lc_CloseWrite_Swallow ==
    /\ pc = "lc_70_exit"
    /\ handles' = handles \ {fallback_path}
    /\ pc' = "lc_74"
    /\ UNCHANGED << fs, fs0, fb_opens, caller, calls, exc, config_data, config,
                    api_endpoint, api_key, idx, results, stdout, exit_status >>

\* leaving the with block of line 70 closes the write handle; a write error
\* leaves load_config
Lc_CloseWrite ==
    /\ pc = "lc_70_exit"
    /\ handles' = handles \ {fallback_path}
    /\ pc' = IF exc # NoExc THEN RaiseTarget ELSE "lc_74"
    /\ UNCHANGED << fs, fs0, fb_opens, caller, calls, exc, config_data, config,
                    api_endpoint, api_key, idx, results, stdout, exit_status >>

\* the caller receives the returned value
Deliver(val) ==
    IF caller = "main"
    THEN /\ config' = val
         /\ pc' = "main_99"
         /\ UNCHANGED results
    ELSE /\ results' = Append(results, val)
         /\ pc' = "twice_next"
         /\ UNCHANGED config

\* line 74: return config_data (the fallback)
Lc_ReturnFallback ==
    /\ pc = "lc_74"
    /\ Deliver(config_data)
    /\ UNCHANGED << fs, fs0, handles, fb_opens, caller, calls, exc, config_data,
                    api_endpoint, api_key, idx, stdout, exit_status >>

\* variant: the parsed file is returned with the defaults merged in
Lc_Return_MergeDefault ==
    /\ pc = "lc_80"
    /\ Deliver(PyDict(DefaultConfig.items \o config_data.items))
    /\ UNCHANGED << fs, fs0, handles, fb_opens, caller, calls, exc, config_data,
                    api_endpoint, api_key, idx, stdout, exit_status >>

\* variant: the fallback file is written on the successful path as well
Lc_Return_WritesFallback ==
    /\ pc = "lc_80"
    /\ Deliver(config_data)
    /\ fs' = [fs EXCEPT ![fallback_path] = File(json_dumps(config_data), TRUE)]
    /\ UNCHANGED << fs0, handles, fb_opens, caller, calls, exc, config_data,
                    api_endpoint, api_key, idx, stdout, exit_status >>

\* line 80: return config_data (the parsed file)
Lc_Return ==
    /\ pc = "lc_80"
    /\ Deliver(config_data)
    /\ UNCHANGED << fs, fs0, handles, fb_opens, caller, calls, exc, config_data,
                    api_endpoint, api_key, idx, stdout, exit_status >>

load_config ==
    \/ Lc_PrintPath
    \/ Lc_OpenRead
    \/ Lc_JsonLoad
    \/ Lc_CloseRead
    \/ Lc_ExceptMissing
    \/ Lc_OpenWrite
    \/ Lc_Write
    \/ Lc_CloseWrite
    \/ Lc_ReturnFallback
    \/ Lc_Return

(***************************************************************************)
(* main                                                                    *)
(***************************************************************************)
\* line 87: config = load_config()
Main_CallLoad ==
    /\ pc = "main_87"
    /\ calls' = calls + 1
    /\ pc' = "lc_29"
    /\ UNCHANGED << fs, fs0, handles, fb_opens, caller, exc, config_data, config,
                    api_endpoint, api_key, idx, results, stdout, exit_status >>

\* variant: the diagnostic is printed but the process goes on
Main_Except_NoExit ==
    /\ pc = "main_88"
    /\ stdout' = stdout \o << Line("failed", <<>>, <<>>),
                              Line("error", Describe(exc), <<>>) >>
    /\ pc' = "main_99"
    /\ UNCHANGED << fs, fs0, handles, fb_opens, caller, calls, exc, config_data,
                    config, api_endpoint, api_key, idx, results, exit_status >>

\* lines 88-93: except Exception: print the diagnostic, sys.exit(1)
Main_Except ==
    /\ pc = "main_88"
    /\ stdout' = stdout \o << Line("failed", <<>>, <<>>),
                              Line("error", Describe(exc), <<>>) >>
    /\ exit_status' = 1
    /\ pc' = "exited"
    /\ UNCHANGED << fs, fs0, handles, fb_opens, caller, calls, exc, config_data,
                    config, api_endpoint, api_key, idx, results >>

\* lines 99-100: the confirmation header
Main_Header ==
    /\ pc = "main_99"
    /\ stdout' = stdout \o << Line("loaded", <<>>, <<>>),
                              Line("config_values", <<>>, <<>>) >>
    /\ pc' = "main_102"
    /\ UNCHANGED << fs, fs0, handles, fb_opens, caller, calls, exc, config_data,
                    config, api_endpoint, api_key, idx, results, exit_status >>

\* line 102: config.items(); a value that is no dict has no items(), the
\* AttributeError is outside the try and ends the process with status 1
Main_Items ==
    /\ pc = "main_102"
    /\ IF config.kind = "dict"
       THEN /\ idx' = 1
            /\ pc' = "main_103"
            /\ UNCHANGED << exc, exit_status >>
       ELSE /\ exc' = "AttributeError"
            /\ exit_status' = 1
            /\ pc' = "exited"
            /\ UNCHANGED idx
    /\ UNCHANGED << fs, fs0, handles, fb_opens, caller, calls, config_data,
                    config, api_endpoint, api_key, results, stdout >>

\* variant: the pairs are printed last to first
Main_PrintItem_Reversed ==
    /\ pc = "main_103"
    /\ idx <= Len(config.items)
    /\ LET j == Len(config.items) + 1 - idx IN
       stdout' = Append(stdout, Line("pair", <<config.items[j].key>>,
                                     PyFormat(config.items[j].val)))
    /\ idx' = idx + 1
    /\ UNCHANGED << fs, fs0, handles, fb_opens, pc, caller, calls, exc,
                    config_data, config, api_endpoint, api_key, results,
                    exit_status >>

\* line 103: print one key/value pair
Main_PrintItem ==
    /\ pc = "main_103"
    /\ idx <= Len(config.items)
    /\ stdout' = Append(stdout, Line("pair", <<config.items[idx].key>>,
                                     PyFormat(config.items[idx].val)))
    /\ idx' = idx + 1
    /\ UNCHANGED << fs, fs0, handles, fb_opens, pc, caller, calls, exc,
                    config_data, config, api_endpoint, api_key, results,
                    exit_status >>

\* variant: the endpoint is read from the "api_endpoint" field
Main_Get_Endpoint ==
    /\ pc = "main_103"
    /\ idx > Len(config.items)
    /\ api_endpoint' = DictGet(config.items, "api_endpoint")
    /\ api_key' = DictGet(config.items, "api_key")
    /\ pc' = "main_115"
    /\ UNCHANGED << fs, fs0, handles, fb_opens, caller, calls, exc, config_data,
                    config, idx, results, stdout, exit_status >>

\* lines 107-108: both locals are read from the "api_key" field
Main_Get ==
    /\ pc = "main_103"
    /\ idx > Len(config.items)
    /\ api_endpoint' = DictGet(config.items, "api_key")
    /\ api_key' = DictGet(config.items, "api_key")
    /\ pc' = "main_115"
    /\ UNCHANGED << fs, fs0, handles, fb_opens, caller, calls, exc, config_data,
                    config, idx, results, stdout, exit_status >>

\* lines 115-117: the simulated request
Main_PrintRequest ==
    /\ pc = "main_115"
    /\ stdout' = stdout \o << Line("if_missing", <<>>, <<>>),
                              Line("request", PyFormat(api_endpoint),
                                   PyFormat(api_key)),
                              Line("real_app", <<>>, <<>>) >>
    /\ pc' = "main_end"
    /\ UNCHANGED << fs, fs0, handles, fb_opens, caller, calls, exc, config_data,
                    config, api_endpoint, api_key, idx, results, exit_status >>

\* lines 122-124: main() returned, the script ends with status 0
Main_Exit ==
    /\ pc = "main_end"
    /\ exit_status' = 0
    /\ pc' = "exited"
    /\ UNCHANGED << fs, fs0, handles, fb_opens, caller, calls, exc, config_data,
                    config, api_endpoint, api_key, idx, results, stdout >>

main ==
    \/ Main_CallLoad
    \/ Main_Except
    \/ Main_Header
    \/ Main_Items
    \/ Main_PrintItem
    \/ Main_Get
    \/ Main_PrintRequest
    \/ Main_Exit

Next == load_config \/ main

Spec == Init /\ [][Next]_vars

(***************************************************************************)
(* load_config called twice in a row by one caller                         *)
(***************************************************************************)
InitTwice ==
    /\ InitFiles
    /\ InitLocals
    /\ caller = "twice"
    /\ pc = "twice_next"

\* first_cfg = load_config(); second_cfg = load_config()
Twice_Call ==
    /\ pc = "twice_next"
    /\ calls < 2
    /\ calls' = calls + 1
    /\ pc' = "lc_29"
    /\ UNCHANGED << fs, fs0, handles, fb_opens, caller, exc, config_data, config,
                    api_endpoint, api_key, idx, results, stdout, exit_status >>

NextTwice == load_config \/ Twice_Call

SpecTwice == InitTwice /\ [][NextTwice]_vars

(***************************************************************************)
(* Properties                                                              *)
(***************************************************************************)
primary0 == fs0[config_path]

\* the primary file is there, can be read and holds one JSON value
PrimaryValid == primary0.exists /\ primary0.readable /\ json_load(primary0.text).ok

\* the primary file is there and can be read, but is no JSON document
PrimaryInvalid == primary0.exists /\ primary0.readable /\ ~json_load(primary0.text).ok

PrimaryMissing == ~primary0.exists

HasTag(t) == \E i \in 1..Len(stdout) : stdout[i].tag = t

SuccessTags == {"loaded", "config_values", "pair", "if_missing", "request", "real_app"}

NoSuccessOutput == \A i \in 1..Len(stdout) : stdout[i].tag \notin SuccessTags

\* the last two lines are the failure diagnostic with the error's description
EndsWithDiagnostic ==
    /\ Len(stdout) >= 2
    /\ stdout[Len(stdout) - 1] = Line("failed", <<>>, <<>>)
    /\ stdout[Len(stdout)] = Line("error", Describe(exc), <<>>)
    /\ Describe(exc) # <<>>

\* C1: a present, valid primary file is returned exactly as parsed and the
\* fallback file is not written during the call
C1_ReturnsParsedContent ==
    (PrimaryValid /\ config # Unset) =>
        /\ config = json_load(primary0.text).val
        /\ fb_opens = 0
        /\ fs[fallback_path] = fs0[fallback_path]
        /\ (primary0.text = <<P("{"), S("x"), P(":"), N("1"), P("}")>>
              => config = PyDict(<<Pair("x", PyNum("1"))>>))
        /\ (primary0.text = <<P("{"), S("api_endpoint"), P(":"), S("E"), P("}")>>
              => config = PyDict(<<Pair("api_endpoint", PyStr("E"))>>))
        /\ (primary0.text = <<P("["), N("1"), P("]")>>
              => config = PyList(<<Pair("", PyNum("1"))>>))

C1_Witness ==
    /\ PrimaryValid
    /\ config = PyDict(<<Pair("api_endpoint", PyStr("E"))>>)
    /\ fs0[fallback_path].exists

\* the text json.dumps(..., indent=4) gives for the literal default
DefaultText ==
    << P("{"),
       W("\n    "), S("api_endpoint"), P(":"), W(" "),
           S("https://api.example.com/v1"), P(","),
       W("\n    "), S("api_key"), P(":"), W(" "), S("YOUR_DEFAULT_API_KEY"), P(","),
       W("\n    "), S("logging_level"), P(":"), W(" "), S("INFO"), P(","),
       W("\n    "), S("feature_flags"), P(":"), W(" "), P("{"),
       W("\n        "), S("enable_new_ui"), P(":"), W(" "), L("false"),
       W("\n    "), P("}"),
       W("\n"), P("}") >>

C3_InvalidJsonIsFatal ==
    PrimaryInvalid =>
        /\ fb_opens = 0
        /\ fs[fallback_path] = fs0[fallback_path]
        /\ config = Unset
        /\ config_data = Unset
        /\ pc \in {"main_87", "lc_29", "lc_33", "lc_34", "lc_33_exit", "main_88",
                   "exited"}
        /\ (pc \in {"main_88", "exited"} => exc = "JSONDecodeError")
        /\ (pc = "exited" => exit_status = 1)

C3_Witness ==
    /\ PrimaryInvalid
    /\ primary0.text = <<B("not"), W(" "), B("json")>>
    /\ pc = "exited"
    /\ exit_status = 1

\* C4: the exit status is 1 exactly in the runs where load_config failed,
\* every run in which it returned a value ends with status 0
C4_ExitStatusOneIffLoadFailed ==
    pc = "exited" =>
        /\ (exit_status = 1 <=> config = Unset)
        /\ (exit_status = 0 <=> config # Unset)

\* C5: once an exception has left load_config, main prints the diagnostic and
\* ends with status 1; nothing of the success report is printed and
\* load_config is not called again
C5_EscapedExceptionIsFatal ==
    /\ calls <= 1
    /\ (pc = "main_88" => exc # NoExc /\ config = Unset /\ NoSuccessOutput)
    /\ ((pc = "exited" /\ config = Unset) =>
            /\ exit_status = 1
            /\ exc # NoExc
            /\ EndsWithDiagnostic
            /\ NoSuccessOutput
            /\ calls = 1)

C5_Witness ==
    /\ pc = "exited"
    /\ config = Unset
    /\ exc = "PermissionError"
    /\ primary0.exists
    /\ stdout[Len(stdout)] = Line("error", <<"[Errno 13] Permission denied">>, <<>>)

\* C6: two calls in a row against the same present, valid primary file return
\* equal values, and the calls leave both files as they were
C6_TwiceEqual ==
    PrimaryValid =>
        /\ fs = fs0
        /\ fb_opens = 0
        /\ (Len(results) = 2 => results[1] = results[2])

C6_Witness ==
    /\ PrimaryValid
    /\ Len(results) = 2
    /\ results[1] = PyDict(<<Pair("a", PyNum("3")), Pair("b", PyNum("2"))>>)
    /\ fs0[fallback_path].exists

\* what main has printed, without load_config's lines
MainOut ==
    SelectSeq(stdout, LAMBDA l : l.tag \in SuccessTags \cup {"failed", "error"})

\* the pairs of the configuration, one line each, in iteration order
ExpectedPairs ==
    IF config.kind = "dict"
    THEN [i \in 1..Len(config.items) |->
             Line("pair", <<config.items[i].key>>, PyFormat(config.items[i].val))]
    ELSE <<>>

ExpectedTags ==
    <<"loaded", "config_values">> \o [i \in 1..Len(ExpectedPairs) |-> "pair"]
    \o <<"if_missing", "request", "real_app">>

IsPrefix(a, b) == Len(a) <= Len(b) /\ a = SubSeq(b, 1, Len(a))

\* C7: after a successful load the header comes first, then one line per
\* pair of the configuration in iteration order, none left out or repeated,
\* and only then the request line
C7_ReportInOrder ==
    config # Unset =>
        LET report == SelectSeq(stdout, LAMBDA l : l.tag = "pair")
            tags == [i \in 1..Len(MainOut) |-> MainOut[i].tag]
        IN  /\ IsPrefix(report, ExpectedPairs)
            /\ IsPrefix(tags, ExpectedTags)
            /\ (HasTag("request") => report = ExpectedPairs)
            /\ ((HasTag("request") /\ PrimaryMissing) =>
                   [i \in 1..Len(report) |-> report[i].a] =
                       << <<"api_endpoint">>, <<"api_key">>, <<"logging_level">>,
                          <<"feature_flags">> >>)

C7_Witness ==
    /\ HasTag("request")
    /\ SelectSeq(stdout, LAMBDA l : l.tag = "pair") =
         << Line("pair", <<"api_endpoint">>, <<"E">>),
            Line("pair", <<"api_key">>, <<"K">>) >>

\* C8: the request line shows the api_key value both as GET target and as
\* bearer token, whatever api_endpoint holds; an absent api_key shows as None
C8_RequestUsesApiKey ==
    \A i \in 1..Len(stdout) :
        stdout[i].tag = "request" =>
            /\ stdout[i].a = PyFormat(DictGet(config.items, "api_key"))
            /\ stdout[i].b = stdout[i].a
            /\ ((\A j \in 1..Len(config.items) : config.items[j].key # "api_key")
                   => stdout[i].a = <<"None">>)
            /\ exc = NoExc
            /\ exit_status # 1

C8_Witness ==
    /\ pc = "exited"
    /\ exit_status = 0
    /\ config = PyDict(<<Pair("api_endpoint", PyStr("E")), Pair("api_key", PyStr("K"))>>)
    /\ \E i \in 1..Len(stdout) : stdout[i] = Line("request", <<"K">>, <<"K">>)

\* C9: at most one file handle is open at any moment, the read handle only
\* inside the read block and the write handle only inside the write block;
\* none is open when load_config returns or raises
C9_HandlesScoped ==
    /\ Cardinality(handles) <= 1
    /\ handles = (CASE pc \in {"lc_34", "lc_33_exit"} -> {config_path}
                    [] pc \in {"lc_71", "lc_70_exit"} -> {fallback_path}
                    [] OTHER -> {})

C9_Witness ==
    /\ pc = "lc_70_exit"
    /\ exc = "OSError"
    /\ handles = {fallback_path}

\* C10: with the primary file missing, a failed write of the fallback file
\* leaves load_config as an error: the MISSING warning is printed, the
\* default is never returned or reported, main ends with status 1
C10_FallbackWriteFailureIsFatal ==
    (PrimaryMissing /\ exc \in {"PermissionError", "OSError"}) =>
        /\ config = Unset
        /\ results = <<>>
        /\ HasTag("missing")
        /\ NoSuccessOutput
        /\ pc \in {"lc_70_exit", "main_88", "exited"}
        /\ (pc = "exited" => exit_status = 1 /\ EndsWithDiagnostic)

C10_Witness ==
    /\ PrimaryMissing
    /\ exc = "OSError"
    /\ pc = "exited"
    /\ exit_status = 1
    /\ fs[fallback_path] = File(<<>>, TRUE)

====
